---- MODULE Spec2Model ----
(***************************************************************************)
(* cyberdb: RSS feed pollers (rssscraper/rssscraper.py), the queue-fed     *)
(* SQLite consumer (rssscraper/db.py) and the orchestrator (main.py).      *)
(*                                                                         *)
(* Three specifications share the variables:                               *)
(*   Spec          the program as main() wires it: one RssScraper task per *)
(*                 url, each given sqlite_db.result_queue as its db, the   *)
(*                 consumer task, and the SIGINT shutdown of main();       *)
(*   SpecPoller    RssScraper objects driven through their public API with *)
(*                 the db class rssscraper.py itself defines (the          *)
(*                 direct-write SqlLiteDB), stop() and task cancellation;  *)
(*   SpecConsumer  db.SqlLiteDB driven through its public API: entries put *)
(*                 on result_queue, start_listen_for_results, cancel.      *)
(***************************************************************************)
EXTENDS Integers, Sequences, FiniteSets, TLC

(***************************************************************************)
(* Bounds of the model.                                                    *)
(***************************************************************************)
NumFeeds == 2        \* configured urls, one poller each
MaxCycles == 2       \* fetches a poller may perform
MaxItems == 2        \* items in one fetched document
MaxPuts == 3         \* entries a producer puts on result_queue (SpecConsumer)
MaxPatterns == 2     \* patterns added to a scraper (SpecMatcher)

Pollers == 1..NumFeeds

(***************************************************************************)
(* Raw item text and regular expressions.  A text is a sequence of         *)
(* characters; a pattern is a sequence of pattern characters, "." standing *)
(* for any character.  The configured patterns are those of the config     *)
(* file, in configuration order.                                           *)
(***************************************************************************)
Texts == { <<"a", "b">>, <<"b", "b">>, <<"c">> }

ConfigPatterns == << <<"b">>, <<".", "b">> >>

\* the pattern texts a configuration may name
PatternTexts == { <<"b">>, <<".", "b">>, <<"c">> }

\* re: whether pattern pat matches text t at position i
MatchesAt(pat, t, i) ==
    /\ i + Len(pat) - 1 <= Len(t)
    /\ \A j \in 1..Len(pat) : pat[j] = "." \/ pat[j] = t[i + j - 1]

\* pattern.findall(text) from position i on: the non-overlapping matches,
\* leftmost first, as the list of matched substrings
RECURSIVE FindAllFrom(_, _, _)
FindAllFrom(pat, t, i) ==
    IF i > Len(t) THEN <<>>
    ELSE IF MatchesAt(pat, t, i)
         THEN <<SubSeq(t, i, i + Len(pat) - 1)>> \o FindAllFrom(pat, t, i + Len(pat))
         ELSE FindAllFrom(pat, t, i + 1)

FindAll(pat, t) == FindAllFrom(pat, t, 1)

\* hashlib.sha256(text).hexdigest(): a digest, equal exactly for equal texts
Sha256(t) == <<"sha256", t>>

(***************************************************************************)
(* Values of the semi-structured field map of an item (item.json()) and of *)
(* the columns of a row.  None is Python's None; Str(s) is a string.       *)
(***************************************************************************)
None == [k |-> "none"]
Str(s) == [k |-> "str", s |-> s]
Dollar(s) == [k |-> "dict", s |-> s]          \* {'$': s}
DollarList(l) == [k |-> "list", l |-> l]      \* [{'$': l[1]}, {'$': l[2]}, ...]
Missing == [k |-> "missing"]                  \* the key is not in the map

\* the items a feed document may hold: raw text and field map
FeedItems ==
    { [text |-> <<"a", "b">>, title |-> Dollar("t1"), category |-> Missing],
      [text |-> <<"a", "b">>, title |-> Missing,      category |-> Dollar("k")],
      [text |-> <<"b", "b">>, title |-> Dollar("t2"), category |-> DollarList(<<"k", "l">>)],
      [text |-> <<"c">>,      title |-> Dollar(""),   category |-> Missing] }

\* every document of at most n items
RECURSIVE Documents(_)
Documents(n) ==
    IF n = 0 THEN { <<>> }
    ELSE Documents(n - 1) \cup
         { Append(d, it) : d \in { x \in Documents(n - 1) : Len(x) = n - 1 }, it \in FeedItems }

VARIABLES
    patterns,      \* the list bound to every scraper's __patterns
    db,            \* the object every scraper was given as db
    running,       \* running[p]: RssScraper.__running
    pc,            \* pc[p]: where scraper p's run() task stands
    items,         \* items[p]: items of the fetched document not yet processed
    seen,          \* seen[p]: __processed_rss_item_sha256s
    sessionOpen,   \* sessionOpen[p]: the XMLSession is open
    mustCancel,    \* mustCancel[p]: task.cancel() requested, not yet delivered
    fetches,       \* fetches[p]: fetches begun
    queue,         \* SqlLiteDB.__result_queue
    isCancelled,   \* SqlLiteDB.__is_cancelled
    cpc,           \* where the start_listen_for_results() task stands
    cMustCancel,   \* cancel requested of the consumer task, not yet delivered
    store,         \* the tables as the connection sees them
    committed,     \* the tables as last committed
    loop,          \* the event loop of main(): "running", "shutdown", "closed"
    cur,           \* the task running on the loop's thread, Idle when none
    matchRuns,     \* history: matchRuns[p][t], times p ran the patterns on text t
    skipped,       \* history: skipped[p][t], p skipped an item of text t as processed
    handoffs,      \* history: handoffs[p], entries p passed to commit_rss_item_and_matches
    enqueued,      \* history: entries put on the queue, in order
    writeLog,      \* history: entries whose write was begun, in order, by whom,
                   \* whether committed, whether after the cancel was caught
    stopIssued     \* history: stopIssued[p], stop() or cancel() was called on p

pollerVars == <<running, pc, items, seen, sessionOpen, mustCancel, fetches>>
consumerVars == <<queue, isCancelled, cpc, cMustCancel>>
storeVars == <<store, committed>>
historyVars == <<matchRuns, skipped, handoffs, enqueued, writeLog, stopIssued>>
vars == <<patterns, db, pollerVars, consumerVars, storeVars, loop, cur, historyVars>>

Idle == 0
ConsumerTask == NumFeeds + 1

(***************************************************************************)
(* The pattern list.  RssScraper.__init__ binds __patterns to its default  *)
(* argument, one list object made when the function is defined, and        *)
(* add_pattern appends to it; main() passes no list of its own.            *)
(***************************************************************************)
\* re.compile(pattern): an object that keeps the text as .pattern
Compile(pattern) == [pattern |-> pattern]

\* add_pattern, called for each configured pattern in turn
RECURSIVE AddPatterns(_, _)
AddPatterns(list, ps) ==
    IF ps = <<>> THEN list
    ELSE AddPatterns(Append(list, Compile(Head(ps))), Tail(ps))

\* the loop over n urls of main(): construct a scraper, add every pattern
RECURSIVE ConstructScrapers(_, _)
ConstructScrapers(n, list) ==
    IF n = 0 THEN list
    ELSE ConstructScrapers(n - 1, AddPatterns(list, ConfigPatterns))

(***************************************************************************)
(* __process_item: the pieces.                                             *)
(***************************************************************************)
\* mutant: the processed set is never consulted
SeenNever(processed, sha256) == FALSE

\* "sha256 in self.__processed_rss_item_sha256s"
Seen(processed, sha256) == sha256 \in processed

\* "self.__processed_rss_item_sha256s.add(sha256)"
MarkSeen(processed, sha256) == processed \cup {sha256}

\* every list of at most n compiled patterns
RECURSIVE PatternLists(_)
PatternLists(n) ==
    IF n = 0 THEN { <<>> }
    ELSE PatternLists(n - 1) \cup
         { Append(l, Compile(pt)) : l \in { x \in PatternLists(n - 1) : Len(x) = n - 1 },
                                    pt \in PatternTexts }

\* mutant: a patternMatch is put in front of the earlier ones
RECURSIVE PatternMatchesNewestFirst(_, _)
PatternMatchesNewestFirst(pats, text) ==
    IF pats = <<>> THEN <<>>
    ELSE LET m == FindAll(Head(pats).pattern, text)
             rest == PatternMatchesNewestFirst(Tail(pats), text)
         IN IF m # <<>>
            THEN rest \o <<[pattern |-> Head(pats), matches |-> m]>>
            ELSE rest

\* the loop over the patterns: one patternMatch per pattern with a match
RECURSIVE PatternMatches(_, _)
PatternMatches(pats, text) ==
    IF pats = <<>> THEN <<>>
    ELSE LET m == FindAll(Head(pats).pattern, text)
             rest == PatternMatches(Tail(pats), text)
         IN IF m # <<>>
            THEN <<[pattern |-> Head(pats), matches |-> m]>> \o rest
            ELSE rest

\* mutant: an item without a match is not discarded
DiscardedNever(pattern_matches) == FALSE

\* "if not pattern_matches: return"
Discarded(pattern_matches) == pattern_matches = <<>>

\* "(parsed_item.get(name, {}).get('$')) or None"
ScalarField(v) ==
    IF v.k = "dict" /\ v.s # "" THEN Str(v.s) ELSE None

\* __parse_item_category
ParseItemCategory(category) ==
    IF category.k = "missing" THEN None
    ELSE IF category.k = "list" THEN [k |-> "pylist", l |-> category.l]
    ELSE IF category.s # "" THEN Str(category.s) ELSE None

\* str(x)
PyStr(x) ==
    IF x.k = "none" THEN Str("None")
    ELSE IF x.k = "pylist" THEN [k |-> "str", s |-> "repr of list", l |-> x.l]
    ELSE x

\* RssItem(sha256, title, ..., category, ...): the other eight columns are
\* filled as title is
RssItem(item) ==
    [sha256 |-> Sha256(item.text),
     title |-> ScalarField(item.title),
     category |-> PyStr(ParseItemCategory(item.category))]

\* what is passed to commit_rss_item_and_matches
Entry(item, pattern_matches) == [item |-> RssItem(item), matches |-> pattern_matches]

(***************************************************************************)
(* The tables.  A table is the sequence of its rows in insertion order;    *)
(* evidence.id is the position of the row.                                 *)
(***************************************************************************)
EmptyTables == [rss_items |-> <<>>, patterns |-> <<>>, matches |-> <<>>, evidence |-> <<>>]

InTable(rows, row) == \E i \in DOMAIN rows : rows[i] = row

\* mutant: INSERT OR REPLACE, the row of the same key is deleted first
InsertOrReplaceRssItem(t, row) ==
    [t EXCEPT !.rss_items = Append(SelectSeq(@, LAMBDA r : r.sha256 # row.sha256), row)]

\* INSERT OR IGNORE INTO rss_items: sha256 is the primary key
InsertRssItem(t, row) ==
    IF \E i \in DOMAIN t.rss_items : t.rss_items[i].sha256 = row.sha256
    THEN t
    ELSE [t EXCEPT !.rss_items = Append(@, row)]

\* INSERT OR IGNORE INTO patterns: regex is the primary key
InsertPattern(t, regex) ==
    IF InTable(t.patterns, regex) THEN t
    ELSE [t EXCEPT !.patterns = Append(@, regex)]

\* INSERT OR IGNORE INTO matches: match is the primary key
InsertMatch(t, m) ==
    IF InTable(t.matches, m) THEN t
    ELSE [t EXCEPT !.matches = Append(@, m)]

\* mutant: WHERE NOT EXISTS looks at the sha256 alone
InsertEvidenceIfHashAbsent(t, triple) ==
    IF \E i \in DOMAIN t.evidence : t.evidence[i][1] = triple[1] THEN t
    ELSE [t EXCEPT !.evidence = Append(@, triple)]

\* mutant: the WHERE NOT EXISTS clause is left out
InsertEvidenceAlways(t, triple) == [t EXCEPT !.evidence = Append(@, triple)]

\* db.py: INSERT INTO evidence ... SELECT ... WHERE NOT EXISTS (same triple)
InsertEvidenceIfAbsent(t, triple) ==
    IF InTable(t.evidence, triple) THEN t
    ELSE [t EXCEPT !.evidence = Append(@, triple)]

\* rssscraper.py: INSERT OR IGNORE INTO evidence; the table's only key is
\* the autoincremented id, so no insert is ever ignored
InsertEvidenceOrIgnore(t, triple) == [t EXCEPT !.evidence = Append(@, triple)]

\* mutant: the evidence is inserted before the pattern and the matches
MatchStatementsEvidenceFirst(sha256, match) ==
    [i \in 1..Len(match.matches) |->
            [table |-> "evidence", row |-> <<sha256, match.matches[i], match.pattern.pattern>>]]
    \o <<[table |-> "patterns", row |-> match.pattern.pattern]>>
    \o [i \in 1..Len(match.matches) |-> [table |-> "matches", row |-> match.matches[i]]]

\* the statements commit_rss_item_and_matches executes for one patternMatch:
\* the pattern, every match (executemany), every evidence (executemany)
MatchStatements(sha256, match) ==
    <<[table |-> "patterns", row |-> match.pattern.pattern]>>
    \o [i \in 1..Len(match.matches) |-> [table |-> "matches", row |-> match.matches[i]]]
    \o [i \in 1..Len(match.matches) |->
            [table |-> "evidence", row |-> <<sha256, match.matches[i], match.pattern.pattern>>]]

RECURSIVE MatchesStatements(_, _)
MatchesStatements(sha256, matches) ==
    IF matches = <<>> THEN <<>>
    ELSE MatchStatements(sha256, Head(matches)) \o MatchesStatements(sha256, Tail(matches))

\* every statement of commit_rss_item_and_matches(item, matches), in order
Statements(entry) ==
    <<[table |-> "rss_items", row |-> entry.item]>>
    \o MatchesStatements(entry.item.sha256, entry.matches)

\* one statement executed by the SqlLiteDB of module dbModule
Execute(dbModule, t, stmt) ==
    IF stmt.table = "rss_items" THEN InsertRssItem(t, stmt.row)
    ELSE IF stmt.table = "patterns" THEN InsertPattern(t, stmt.row)
    ELSE IF stmt.table = "matches" THEN InsertMatch(t, stmt.row)
    ELSE IF dbModule = "db.py" THEN InsertEvidenceIfAbsent(t, stmt.row)
    ELSE InsertEvidenceOrIgnore(t, stmt.row)

\* the first n statements of stmts executed in order
RECURSIVE ExecuteFirst(_, _, _, _)
ExecuteFirst(dbModule, t, stmts, n) ==
    IF n = 0 \/ stmts = <<>> THEN t
    ELSE LET after == { Execute(dbModule, t, Head(stmts)) }
         IN CHOOSE r \in { ExecuteFirst(dbModule, x, Tail(stmts), n - 1) : x \in after } : TRUE

\* commit_rss_item_and_matches run to its end, before connection.commit()
CommitRssItemAndMatches(dbModule, t, entry) ==
    ExecuteFirst(dbModule, t, Statements(entry), Len(Statements(entry)))

\* where a write may raise: statement f of the entry, or the commit
\* (f = Len + 1); 0 stands for no failure
FailPoints(entry) == 0..(Len(Statements(entry)) + 1)

(***************************************************************************)
(* The state after construction: main() up to loop.run_forever().          *)
(***************************************************************************)
AfterConstruction(pats) ==
    /\ patterns = pats
    /\ running = [p \in Pollers |-> FALSE]
    /\ pc = [p \in Pollers |-> "created"]
    /\ items = [p \in Pollers |-> <<>>]
    /\ seen = [p \in Pollers |-> {}]
    /\ sessionOpen = [p \in Pollers |-> TRUE]
    /\ mustCancel = [p \in Pollers |-> FALSE]
    /\ fetches = [p \in Pollers |-> 0]
    /\ queue = <<>>
    /\ isCancelled = FALSE
    /\ cpc = "created"
    /\ cMustCancel = FALSE
    /\ store = EmptyTables
    /\ committed = EmptyTables
    /\ loop = "running"
    /\ cur = Idle
    /\ matchRuns = [p \in Pollers |-> [t \in Texts |-> 0]]
    /\ skipped = [p \in Pollers |-> [t \in Texts |-> FALSE]]
    /\ handoffs = [p \in Pollers |-> <<>>]
    /\ enqueued = <<>>
    /\ writeLog = <<>>
    /\ stopIssued = [p \in Pollers |-> FALSE]

\* main(): every scraper constructed and given every configured pattern
InitState == AfterConstruction(ConstructScrapers(NumFeeds, <<>>))

\* a task that has ended: returned, raised, or was cancelled
Ended(state) == state \in {"stopped", "done", "failed", "cancelled"}

\* mutant: the scrapers are given a db that writes
HasCommitMethodAlways(dbObject) == TRUE

\* whether the object given as db has a commit_rss_item_and_matches method:
\* rssscraper.py's SqlLiteDB has, an asyncio.Queue has not
HasCommitMethod(dbObject) == dbObject = "SqlLiteDB"

(***************************************************************************)
(* RssScraper.run(), one task per scraper.                                 *)
(***************************************************************************)
\* the task's first step: a cancel requested before it ends the task at
\* once, else "self.__running = True" and the first loop test
Run(p) ==
    /\ loop # "closed" /\ cur = Idle /\ pc[p] = "created"
    /\ IF mustCancel[p]
       THEN /\ pc' = [pc EXCEPT ![p] = "cancelled"]
            /\ mustCancel' = [mustCancel EXCEPT ![p] = FALSE]
            /\ UNCHANGED <<running, fetches, cur>>
       ELSE /\ fetches[p] < MaxCycles
            /\ running' = [running EXCEPT ![p] = TRUE]
            /\ pc' = [pc EXCEPT ![p] = "fetch"]
            /\ fetches' = [fetches EXCEPT ![p] = @ + 1]
            /\ cur' = p
            /\ UNCHANGED mustCancel
    /\ UNCHANGED <<patterns, db, items, seen, sessionOpen, consumerVars,
                   storeVars, loop, historyVars>>

\* "res = self.__xml_session.get(url); res.raise_for_status();
\*  items = res.xml.find('item', first=False)", the fetch succeeding
Fetch(p) ==
    /\ cur = p /\ pc[p] = "fetch"
    /\ \E doc \in Documents(MaxItems) : items' = [items EXCEPT ![p] = doc]
    /\ pc' = [pc EXCEPT ![p] = "items"]
    /\ UNCHANGED <<patterns, db, running, seen, sessionOpen, mustCancel, fetches, consumerVars,
                   storeVars, loop, cur, historyVars>>

\* mutant: the exception of a failed fetch leaves the event loop too
FetchFailStopsLoop(p) ==
    /\ cur = p /\ pc[p] = "fetch"
    /\ pc' = [pc EXCEPT ![p] = "failed"]
    /\ cur' = Idle
    /\ loop' = "closed"
    /\ UNCHANGED <<patterns, db, running, items, seen, sessionOpen, mustCancel, fetches,
                   consumerVars, storeVars, historyVars>>

\* the fetch raising (transport error, or raise_for_status on a bad status):
\* the exception leaves run() and ends the task
FetchFail(p) ==
    /\ cur = p /\ pc[p] = "fetch"
    /\ pc' = [pc EXCEPT ![p] = "failed"]
    /\ cur' = Idle
    /\ UNCHANGED <<patterns, db, running, items, seen, sessionOpen, mustCancel, fetches,
                   consumerVars, storeVars, loop, historyVars>>

\* __process_item(item) for the next item of the document
ProcessItem(p) ==
    /\ cur = p /\ pc[p] = "items" /\ items[p] # <<>>
    /\ LET item == Head(items[p])
           sha256 == Sha256(item.text)
           pattern_matches == PatternMatches(patterns, item.text)
           entry == Entry(item, pattern_matches)
       IN IF Seen(seen[p], sha256)
          THEN /\ items' = [items EXCEPT ![p] = Tail(@)]
               /\ skipped' = [skipped EXCEPT ![p][item.text] = TRUE]
               /\ UNCHANGED <<seen, pc, cur, storeVars, matchRuns, handoffs, writeLog>>
          ELSE /\ seen' = [seen EXCEPT ![p] = MarkSeen(@, sha256)]
               /\ UNCHANGED skipped
               /\ matchRuns' = [matchRuns EXCEPT ![p][item.text] = @ + 1]
               /\ IF Discarded(pattern_matches)
                  THEN /\ items' = [items EXCEPT ![p] = Tail(@)]
                       /\ UNCHANGED <<pc, cur, storeVars, handoffs, writeLog>>
                  ELSE /\ handoffs' = [handoffs EXCEPT ![p] = Append(@, entry)]
                       /\ IF ~HasCommitMethod(db)
                          THEN \* AttributeError leaves run() and ends the task
                               /\ pc' = [pc EXCEPT ![p] = "failed"]
                               /\ cur' = Idle
                               /\ items' = [items EXCEPT ![p] = <<>>]
                               /\ UNCHANGED <<storeVars, writeLog>>
                          ELSE \E f \in FailPoints(entry) :
                               IF f = 0
                               THEN /\ store' = CommitRssItemAndMatches("rssscraper.py", store, entry)
                                    /\ committed' = store'
                                    /\ writeLog' = Append(writeLog,
                                           [by |-> p, entry |-> entry, committed |-> TRUE, draining |-> FALSE])
                                    /\ items' = [items EXCEPT ![p] = Tail(@)]
                                    /\ UNCHANGED <<pc, cur>>
                               ELSE \* sqlite3 raises: the exception ends the task
                                    /\ store' = ExecuteFirst("rssscraper.py", store,
                                                             Statements(entry), f - 1)
                                    /\ writeLog' = Append(writeLog,
                                           [by |-> p, entry |-> entry, committed |-> FALSE, draining |-> FALSE])
                                    /\ pc' = [pc EXCEPT ![p] = "failed"]
                                    /\ cur' = Idle
                                    /\ items' = [items EXCEPT ![p] = <<>>]
                                    /\ UNCHANGED committed
    /\ UNCHANGED <<patterns, db, running, sessionOpen, mustCancel, fetches, consumerVars,
                   loop, enqueued, stopIssued>>

\* "await asyncio.sleep(self.__wait)": the task is suspended
Sleep(p) ==
    /\ cur = p /\ pc[p] = "items" /\ items[p] = <<>>
    /\ pc' = [pc EXCEPT ![p] = "sleep"]
    /\ cur' = Idle
    /\ UNCHANGED <<patterns, db, running, items, seen, sessionOpen, mustCancel, fetches,
                   consumerVars, storeVars, loop, historyVars>>

\* the task resumed from the sleep: CancelledError when a cancel was
\* requested; else the loop test, then the next fetch or the exit with
\* "self.__xml_session.close()"
Wake(p) ==
    /\ loop # "closed" /\ cur = Idle /\ pc[p] = "sleep"
    /\ IF mustCancel[p]
       THEN /\ pc' = [pc EXCEPT ![p] = "cancelled"]
            /\ mustCancel' = [mustCancel EXCEPT ![p] = FALSE]
            /\ UNCHANGED <<sessionOpen, fetches, cur>>
       ELSE IF running[p]
       THEN /\ fetches[p] < MaxCycles
            /\ pc' = [pc EXCEPT ![p] = "fetch"]
            /\ fetches' = [fetches EXCEPT ![p] = @ + 1]
            /\ cur' = p
            /\ UNCHANGED <<sessionOpen, mustCancel>>
       ELSE /\ pc' = [pc EXCEPT ![p] = "stopped"]
            /\ sessionOpen' = [sessionOpen EXCEPT ![p] = FALSE]
            /\ UNCHANGED <<mustCancel, fetches, cur>>
    /\ UNCHANGED <<patterns, db, running, items, seen, consumerVars, storeVars,
                   loop, historyVars>>

\* stop(), called by whoever holds the scraper
Stop(p) ==
    /\ ~Ended(pc[p])
    /\ running' = [running EXCEPT ![p] = FALSE]
    /\ stopIssued' = [stopIssued EXCEPT ![p] = TRUE]
    /\ UNCHANGED <<patterns, db, pc, items, seen, sessionOpen, mustCancel, fetches,
                   consumerVars, storeVars, loop, cur, matchRuns, skipped, handoffs, enqueued,
                   writeLog>>

\* task.cancel() on the scraper's task
Cancel(p) ==
    /\ ~Ended(pc[p])
    /\ mustCancel' = [mustCancel EXCEPT ![p] = TRUE]
    /\ stopIssued' = [stopIssued EXCEPT ![p] = TRUE]
    /\ UNCHANGED <<patterns, db, running, pc, items, seen, sessionOpen, fetches,
                   consumerVars, storeVars, loop, cur, matchRuns, skipped, handoffs, enqueued,
                   writeLog>>

(***************************************************************************)
(* db.SqlLiteDB.start_listen_for_results(), the consumer task.             *)
(***************************************************************************)
\* the task's first step: a cancel requested before it ends the task
\* before the coroutine runs, else the loop is entered
ListenStart ==
    /\ loop # "closed" /\ cur = Idle /\ cpc = "created"
    /\ IF cMustCancel
       THEN /\ cpc' = "cancelled"
            /\ cMustCancel' = FALSE
            /\ UNCHANGED cur
       ELSE /\ cpc' = "loop"
            /\ cur' = ConsumerTask
            /\ UNCHANGED cMustCancel
    /\ UNCHANGED <<patterns, db, pollerVars, queue, isCancelled, storeVars, loop,
                   historyVars>>

\* mutant: the loop ends as soon as the cancel was caught
ListenUntilCancelled(cancelled, q) == ~cancelled

\* the loop test
ListenContinues(cancelled, q) == ~(cancelled /\ q = <<>>)

\* mutant: an exception of the write is caught and the loop goes on
ListenLoopCatches ==
    /\ cur = ConsumerTask /\ cpc = "loop"
    /\ IF ~ListenContinues(isCancelled, queue)
       THEN /\ cpc' = "done"
            /\ cur' = Idle
            /\ UNCHANGED <<queue, storeVars, writeLog>>
       ELSE IF queue = <<>>
       THEN /\ cpc' = "waiting"
            /\ cur' = Idle
            /\ UNCHANGED <<queue, storeVars, writeLog>>
       ELSE LET entry == Head(queue)
            IN /\ queue' = Tail(queue)
               /\ \E f \in FailPoints(entry) :
                    /\ store' = ExecuteFirst("db.py", store, Statements(entry),
                                             IF f = 0 THEN Len(Statements(entry)) ELSE f - 1)
                    /\ committed' = IF f = 0 THEN store' ELSE committed
                    /\ writeLog' = Append(writeLog,
                           [by |-> ConsumerTask, entry |-> entry, committed |-> (f = 0),
                            draining |-> isCancelled])
                    /\ UNCHANGED <<cpc, cur>>
    /\ UNCHANGED <<patterns, db, pollerVars, isCancelled, cMustCancel, loop, matchRuns, skipped,
                   handoffs, enqueued, stopIssued>>

\* one turn of the loop: the test, "await self.__result_queue.get()", which
\* suspends the task on an empty queue, the write of the entry and
\* task_done(); sqlite3 raising ends the task
ListenLoop ==
    /\ cur = ConsumerTask /\ cpc = "loop"
    /\ IF ~ListenContinues(isCancelled, queue)
       THEN /\ cpc' = "done"
            /\ cur' = Idle
            /\ UNCHANGED <<queue, storeVars, writeLog>>
       ELSE IF queue = <<>>
       THEN /\ cpc' = "waiting"
            /\ cur' = Idle
            /\ UNCHANGED <<queue, storeVars, writeLog>>
       ELSE LET entry == Head(queue)
            IN /\ queue' = Tail(queue)
               /\ \E f \in FailPoints(entry) :
                    IF f = 0
                    THEN /\ store' = CommitRssItemAndMatches("db.py", store, entry)
                         /\ committed' = store'
                         /\ writeLog' = Append(writeLog,
                                [by |-> ConsumerTask, entry |-> entry, committed |-> TRUE,
                                 draining |-> isCancelled])
                         /\ UNCHANGED <<cpc, cur>>
                    ELSE /\ store' = ExecuteFirst("db.py", store, Statements(entry), f - 1)
                         /\ writeLog' = Append(writeLog,
                                [by |-> ConsumerTask, entry |-> entry, committed |-> FALSE,
                                 draining |-> isCancelled])
                         /\ cpc' = "failed"
                         /\ cur' = Idle
                         /\ UNCHANGED committed
    /\ UNCHANGED <<patterns, db, pollerVars, isCancelled, cMustCancel, loop, matchRuns, skipped,
                   handoffs, enqueued, stopIssued>>

\* the task resumed from get(): by a put, or by the CancelledError of a
\* requested cancel, caught with "self.__is_cancelled = True"
ListenWake ==
    /\ loop # "closed" /\ cur = Idle /\ cpc = "waiting"
    /\ cMustCancel \/ queue # <<>>
    /\ isCancelled' = (isCancelled \/ cMustCancel)
    /\ cMustCancel' = FALSE
    /\ cpc' = "loop"
    /\ cur' = ConsumerTask
    /\ UNCHANGED <<patterns, db, pollerVars, queue, storeVars, loop, historyVars>>

\* task.cancel() on the consumer task
CancelListen ==
    /\ cur = Idle /\ ~Ended(cpc)
    /\ cMustCancel' = TRUE
    /\ UNCHANGED <<patterns, db, pollerVars, queue, isCancelled, cpc, storeVars, loop,
                   cur, historyVars>>

\* the entries a scraper builds for the items of a feed, for the pattern
\* list main() leaves after n urls
ProducerEntries ==
    { e \in { Entry(it, PatternMatches(ConstructScrapers(n, <<>>), it.text)) :
                  it \in FeedItems, n \in 1..NumFeeds } : ~Discarded(e.matches) }

\* result_queue.put_nowait(entry) by a producer holding the queue
Put ==
    /\ cur = Idle /\ Len(enqueued) < MaxPuts
    /\ \E e \in ProducerEntries :
         /\ queue' = Append(queue, e)
         /\ enqueued' = Append(enqueued, e)
    /\ UNCHANGED <<patterns, db, pollerVars, isCancelled, cpc, cMustCancel, storeVars,
                   loop, cur, matchRuns, skipped, handoffs, writeLog, stopIssued>>

(***************************************************************************)
(* main(): the shutdown.                                                   *)
(***************************************************************************)
\* KeyboardInterrupt out of loop.run_forever(), raised while the loop is
\* idle or inside a scraper's blocking fetch (which ends that task); the
\* finally clause cancels every task
Interrupt ==
    /\ loop = "running"
    /\ cur = Idle \/ (cur \in Pollers /\ pc[cur] = "fetch")
    /\ pc' = [p \in Pollers |-> IF p = cur THEN "failed" ELSE pc[p]]
    /\ mustCancel' = [p \in Pollers |-> ~Ended(pc'[p])]
    /\ stopIssued' = [p \in Pollers |-> stopIssued[p] \/ ~Ended(pc'[p])]
    /\ cMustCancel' = ~Ended(cpc)
    /\ loop' = "shutdown"
    /\ cur' = Idle
    /\ UNCHANGED <<patterns, db, running, items, seen, sessionOpen, fetches, queue,
                   isCancelled, cpc, storeVars, matchRuns, skipped, handoffs, enqueued, writeLog>>

\* loop.run_until_complete(loop.shutdown_asyncgens()) has run every task
\* that was cancelled; loop.close()
LoopClose ==
    /\ loop = "shutdown" /\ cur = Idle
    /\ \A p \in Pollers : ~mustCancel[p]
    /\ ~cMustCancel
    /\ loop' = "closed"
    /\ UNCHANGED <<patterns, db, pollerVars, consumerVars, storeVars, cur, historyVars>>

(***************************************************************************)
(* The specifications.                                                     *)
(***************************************************************************)
\* main(): every scraper is given sqlite_db.result_queue as its db
Init == InitState /\ db = "result_queue"

Next ==
    \/ \E p \in Pollers : Run(p)
    \/ \E p \in Pollers : Fetch(p)
    \/ \E p \in Pollers : FetchFail(p)
    \/ \E p \in Pollers : ProcessItem(p)
    \/ \E p \in Pollers : Sleep(p)
    \/ \E p \in Pollers : Wake(p)
    \/ ListenStart
    \/ ListenLoop
    \/ ListenWake
    \/ Interrupt
    \/ LoopClose

Spec == Init /\ [][Next]_vars

\* one scraper given the SqlLiteDB of rssscraper.py and driven by its
\* holder: run() as a task, stop(), task.cancel()
TheScraper == CHOOSE p \in Pollers : TRUE

InitPoller == InitState /\ db = "SqlLiteDB"

NextPoller ==
    \/ \E p \in {TheScraper} : Run(p)
    \/ \E p \in {TheScraper} : Fetch(p)
    \/ \E p \in {TheScraper} : FetchFail(p)
    \/ \E p \in {TheScraper} : ProcessItem(p)
    \/ \E p \in {TheScraper} : Sleep(p)
    \/ \E p \in {TheScraper} : Wake(p)
    \/ \E p \in {TheScraper} : Stop(p)
    \/ \E p \in {TheScraper} : Cancel(p)

SpecPoller == InitPoller /\ [][NextPoller]_vars

\* one scraper given any list of patterns through add_pattern, writing
\* through rssscraper.py's SqlLiteDB
InitMatcher ==
    /\ \E pats \in PatternLists(MaxPatterns) : AfterConstruction(pats)
    /\ db = "SqlLiteDB"

NextMatcher ==
    \/ \E p \in {TheScraper} : Run(p)
    \/ \E p \in {TheScraper} : Fetch(p)
    \/ \E p \in {TheScraper} : FetchFail(p)
    \/ \E p \in {TheScraper} : ProcessItem(p)
    \/ \E p \in {TheScraper} : Sleep(p)
    \/ \E p \in {TheScraper} : Wake(p)

SpecMatcher == InitMatcher /\ [][NextMatcher]_vars

\* the consumer of db.py fed by a producer
InitConsumer == InitState /\ db = "result_queue"

NextConsumer ==
    \/ Put
    \/ ListenStart
    \/ ListenLoop
    \/ ListenWake
    \/ CancelListen

SpecConsumer == InitConsumer /\ [][NextConsumer]_vars

\* the event loop runs every task that is ready to run
FairSpecConsumer ==
    SpecConsumer /\ WF_vars(ListenStart) /\ WF_vars(ListenLoop) /\ WF_vars(ListenWake)

(***************************************************************************)
(* Properties.                                                             *)
(***************************************************************************)
\* the entries of log that carry the digest of text t
EntriesOf(log, t) == { i \in DOMAIN log : log[i].item.sha256 = Sha256(t) }

\* the writes of writeLog made by task w for text t
WritesOf(w, t) ==
    { i \in DOMAIN writeLog : writeLog[i].by = w /\ writeLog[i].entry.item.sha256 = Sha256(t) }

\* no configured pattern has a match in text t
NoPatternMatches(t) == \A i \in DOMAIN patterns : FindAll(patterns[i].pattern, t) = <<>>

\* the rows of the tables tb that carry the digest of text t
RowsOf(tb, t) ==
    { i \in DOMAIN tb.rss_items : tb.rss_items[i].sha256 = Sha256(t) }
    \cup { i \in DOMAIN tb.evidence : tb.evidence[i][1] = Sha256(t) }

\* per poller and text: the patterns run, an entry handed off, a write made,
\* each at most once
ProcessedOnce ==
    \A p \in Pollers : \A t \in Texts :
        /\ matchRuns[p][t] <= 1
        /\ Cardinality(EntriesOf(handoffs[p], t)) <= 1
        /\ Cardinality(WritesOf(p, t)) <= 1

\* a step of poller p that takes an item whose digest is in the processed
\* set only drops the item
SkipStep ==
    \A p \in Pollers :
        ( /\ cur = p /\ pc[p] = "items" /\ items[p] # <<>>
          /\ Sha256(Head(items[p]).text) \in seen[p]
          /\ items'[p] # items[p] )
        => /\ store' = store /\ committed' = committed /\ queue' = queue
           /\ matchRuns' = matchRuns /\ handoffs' = handoffs /\ writeLog' = writeLog
           /\ items'[p] = Tail(items[p])

\* C1: once a poller has processed an item of some raw text, matching or
\* not, a later item of the same raw text, in the same or a later cycle, is
\* skipped: the patterns are run at most once per text, at most one entry
\* per text is handed off and written, and the step that meets a processed
\* text changes neither the store, the queue nor the histories of matching
\* and hand-off.
C1_DedupSkipsProcessedText == []ProcessedOnce /\ [][SkipStep]_vars

\* C1 witness: in its second cycle a poller has skipped an item whose text
\* matches a pattern and whose row is in the store
C1_Witness ==
    \E p \in Pollers : \E t \in Texts :
        /\ skipped[p][t] /\ ~NoPatternMatches(t)
        /\ fetches[p] = 2
        /\ RowsOf(store, t) # {}

\* C2: an item whose raw text matches none of the patterns is never handed
\* off or enqueued and never causes a store write: no entry and no row of
\* any table carries its digest, and every entry handed off has a match.
C2_UnmatchedNeverPersisted ==
    /\ \A t \in Texts : NoPatternMatches(t) =>
          /\ EntriesOf(enqueued, t) = {} /\ EntriesOf(queue, t) = {}
          /\ \A p \in Pollers : EntriesOf(handoffs[p], t) = {}
          /\ \A i \in DOMAIN writeLog : writeLog[i].entry.item.sha256 # Sha256(t)
          /\ RowsOf(store, t) = {} /\ RowsOf(committed, t) = {}
    /\ \A p \in Pollers : \A i \in DOMAIN handoffs[p] : handoffs[p][i].matches # <<>>

\* C2 witness: a poller has run the patterns on a text none matches, and
\* has written another item
C2_Witness ==
    \E p \in Pollers : \E t \in Texts :
        /\ NoPatternMatches(t) /\ matchRuns[p][t] = 1
        /\ store.rss_items # <<>>

\* no two evidence rows of tb hold the same triple
NoDuplicateEvidence(tb) ==
    \A i, j \in DOMAIN tb.evidence : tb.evidence[i] = tb.evidence[j] => i = j

\* every evidence row of before is the same row of after
EvidenceKept(before, after) ==
    \A i \in DOMAIN before.evidence :
        i \in DOMAIN after.evidence /\ after.evidence[i] = before.evidence[i]

\* C3: the evidence table never holds two rows with the same triple
\* (rss_item_sha256, match, pattern), and a row once written is never
\* removed or changed, whatever entries are consumed.
C3_EvidenceUniqueAppendOnly ==
    /\ [](NoDuplicateEvidence(store) /\ NoDuplicateEvidence(committed))
    /\ [][EvidenceKept(store, store') /\ EvidenceKept(committed, committed')]_vars

\* an entry that names one pattern twice, and repeats a substring in one
\* match list
RepeatsPatternAndMatch(e) ==
    /\ \E i, j \in DOMAIN e.matches : i # j /\ e.matches[i].pattern = e.matches[j].pattern
    /\ \E i \in DOMAIN e.matches : \E k, l \in DOMAIN e.matches[i].matches :
          k # l /\ e.matches[i].matches[k] = e.matches[i].matches[l]

\* C3 witness: such an entry has been consumed and committed twice
C3_Witness ==
    \E i, j \in DOMAIN writeLog :
        /\ i < j /\ writeLog[i].entry = writeLog[j].entry
        /\ writeLog[i].committed /\ writeLog[j].committed
        /\ RepeatsPatternAndMatch(writeLog[i].entry)
        /\ store.evidence # <<>>

\* every write so far was made by the consumer task
WritesByConsumer == \A i \in DOMAIN writeLog : writeLog[i].by = ConsumerTask

\* a step that changes the tables is the consumer's, taking the head of the
\* queue; a step taken while a scraper runs leaves the tables alone
WriteStep ==
    /\ (store' # store \/ committed' # committed) =>
          /\ cur = ConsumerTask /\ cpc = "loop"
          /\ queue # <<>> /\ queue' = Tail(queue)
          /\ Len(writeLog') = Len(writeLog) + 1
          /\ writeLog'[Len(writeLog')].entry = Head(queue)
    /\ \A p \in Pollers : cur = p => store' = store /\ committed' = committed

C5_MatchedItemReachesChannel ==
    \A p \in Pollers : \A i \in DOMAIN handoffs[p] :
        InTable(enqueued, handoffs[p][i])

\* every entry put so far was written and committed, in the order put
AllWritten ==
    /\ Len(writeLog) = Len(enqueued)
    /\ \A i \in DOMAIN writeLog :
          writeLog[i].committed /\ writeLog[i].entry = enqueued[i]

\* the entries taken from the queue are those whose write was begun, in
\* the order put, and all but one that raised are committed
TakenAreWritten ==
    /\ Len(writeLog) + Len(queue) = Len(enqueued)
    /\ \A i \in DOMAIN writeLog : writeLog[i].entry = enqueued[i]
    /\ \A i \in DOMAIN queue : queue[i] = enqueued[Len(writeLog) + i]
    /\ \A i \in DOMAIN writeLog :
          writeLog[i].committed \/ (cpc = "failed" /\ i = Len(writeLog))

\* the step in which the consumer catches the cancel runs on until the
\* task has ended
CancelRunsToEnd == (isCancelled /\ cur = Idle) => cpc \in {"done", "failed"}

FetchFailureStep ==
    \A p \in Pollers :
        (pc[p] = "fetch" /\ pc'[p] = "failed" /\ loop' # "shutdown") =>
            /\ cur' = Idle /\ loop' = loop
            /\ \A q \in Pollers \ {p} :
                  /\ pc'[q] = pc[q] /\ running'[q] = running[q] /\ items'[q] = items[q]
                  /\ seen'[q] = seen[q] /\ sessionOpen'[q] = sessionOpen[q]
                  /\ mustCancel'[q] = mustCancel[q] /\ fetches'[q] = fetches[q]
            /\ UNCHANGED <<consumerVars, storeVars>>

\* a scraper whose task has failed fetches and hands off nothing more
FailedStays ==
    \A p \in Pollers :
        pc[p] = "failed" =>
            /\ pc'[p] = "failed" /\ fetches'[p] = fetches[p]
            /\ handoffs'[p] = handoffs[p] /\ seen'[p] = seen[p]

\* with a scraper failed and the loop free, every other task that is ready
\* for its next step can take it
OthersCanRun ==
    \A p \in Pollers :
        (pc[p] = "failed" /\ loop = "running" /\ cur = Idle) =>
            /\ \A q \in Pollers \ {p} :
                  /\ (pc[q] = "created" /\ fetches[q] < MaxCycles) => ENABLED Run(q)
                  /\ (pc[q] = "sleep" /\ fetches[q] < MaxCycles) => ENABLED Wake(q)
            /\ cpc = "created" => ENABLED ListenStart

\* C7: a fetch that fails ends that scraper's cycles and hand-offs and
\* touches nothing else: the other scrapers, the consumer, the tables and
\* the event loop are as they were, and the loop is free to run them.
C7_FetchFailureIsolated == []OthersCanRun /\ [][FetchFailureStep /\ FailedStays]_vars

\* C7 witness: one scraper failed in its second fetch, having handed off
\* nothing, and another is in a cycle begun after that, the consumer
\* waiting on the queue
C7_Witness ==
    \E p, q \in Pollers :
        /\ p # q /\ pc[p] = "failed" /\ fetches[p] = 2 /\ handoffs[p] = <<>>
        /\ loop = "running" /\ cur = q /\ pc[q] = "items" /\ cpc = "waiting"

\* C8: once stop() or a cancel was issued to a scraper, whenever it was
\* issued, the scraper begins no further fetch.
C8_NoFetchAfterStop ==
    [][\A p \in Pollers : stopIssued[p] => fetches'[p] = fetches[p]]_vars

\* sub is seq with some elements left out
IsSubsequence(sub, seq) ==
    \E f \in [DOMAIN sub -> DOMAIN seq] :
        /\ \A i, j \in DOMAIN sub : i < j => f[i] < f[j]
        /\ \A i \in DOMAIN sub : seq[f[i]] = sub[i]

\* C9: the entries a scraper builds for the new matching items of a
\* document reach the result queue in document order, and the consumer
\* writes the entries in the order they were put.
C9_HandoffOrderKept ==
    /\ \A p \in Pollers : IsSubsequence(handoffs[p], enqueued)
    /\ Len(writeLog) <= Len(enqueued)
    /\ \A i \in DOMAIN writeLog : writeLog[i].entry = enqueued[i]

\* a step that consumes and commits an entry equal to one consumed and
\* committed before leaves the tables as they were
ReemissionStep ==
    LET n == Len(writeLog)
    IN ( /\ Len(writeLog') = n + 1
         /\ writeLog'[n + 1].committed
         /\ \E i \in 1..n : writeLog[i].committed /\ writeLog[i].entry = writeLog'[n + 1].entry )
       => store' = store /\ committed' = committed

\* every rss_items row of before is the same row of after
ItemRowsKept(before, after) ==
    \A i \in DOMAIN before.rss_items :
        i \in DOMAIN after.rss_items /\ after.rss_items[i] = before.rss_items[i]

\* no two rss_items rows of tb have the same sha256
ItemRowOnce(tb) ==
    \A i, j \in DOMAIN tb.rss_items :
        tb.rss_items[i].sha256 = tb.rss_items[j].sha256 => i = j

\* C10: consuming an entry equal to one already consumed leaves the four
\* tables unchanged; an rss_items row is created at most once per sha256
\* and no later write changes or removes it.
C10_ReemissionIdempotent ==
    /\ [](ItemRowOnce(store) /\ ItemRowOnce(committed))
    /\ [][/\ ReemissionStep
          /\ ItemRowsKept(store, store') /\ ItemRowsKept(committed, committed')]_vars

\* C10 witness: an entry was consumed twice, and so was an entry of the
\* same sha256 with other field values
C10_Witness ==
    \E i, j, k \in DOMAIN writeLog :
        /\ i < j /\ writeLog[i].entry = writeLog[j].entry
        /\ writeLog[i].committed /\ writeLog[j].committed /\ writeLog[k].committed
        /\ writeLog[k].entry.item.sha256 = writeLog[i].entry.item.sha256
        /\ writeLog[k].entry.item # writeLog[i].entry.item
        /\ Len(store.rss_items) = 1


\* the rows of a table, as a set
Rows(rows) == { rows[i] : i \in DOMAIN rows }

\* no row of the table is held twice
NoRowTwice(rows) == \A i, j \in DOMAIN rows : rows[i] = rows[j] => i = j

\* the evidence triples, the patterns and the substrings of an entry
EvidenceOf(entry) ==
    UNION { { <<entry.item.sha256, entry.matches[i].matches[j], entry.matches[i].pattern.pattern>> :
                j \in DOMAIN entry.matches[i].matches } : i \in DOMAIN entry.matches }

PatternsOf(entry) == { entry.matches[i].pattern.pattern : i \in DOMAIN entry.matches }

SubstringsOf(entry) ==
    UNION { Rows(entry.matches[i].matches) : i \in DOMAIN entry.matches }

\* tb holds what the entry asks for
HoldsEntry(tb, entry) ==
    /\ EvidenceOf(entry) \subseteq Rows(tb.evidence)
    /\ PatternsOf(entry) \subseteq Rows(tb.patterns)
    /\ SubstringsOf(entry) \subseteq Rows(tb.matches)

\* every evidence row of tb was asked for by an entry whose write was begun
OnlyAskedEvidence(tb) ==
    \A row \in Rows(tb.evidence) :
        \E i \in DOMAIN writeLog : row \in EvidenceOf(writeLog[i].entry)

\* C11: once the consumer has written and committed an entry, the tables
\* hold the evidence triple (sha256, substring, pattern) of every substring
\* of every patternMatch of the entry, its patterns and its substrings;
\* every evidence row was asked for by an entry of that sha256; and no
\* pattern and no substring is held twice.
C11_EvidenceAssemblyExact ==
    \A tb \in {store, committed} :
        /\ \A i \in DOMAIN writeLog :
              writeLog[i].committed => HoldsEntry(tb, writeLog[i].entry)
        /\ OnlyAskedEvidence(tb)
        /\ NoRowTwice(tb.patterns) /\ NoRowTwice(tb.matches)

\* C11 witness: two patterns matched one item, the entry is committed, and
\* the evidence holds two rows of that sha256 with different patterns;
\* an entry of another sha256 is committed too
C11_Witness ==
    /\ \E i, j \in DOMAIN committed.evidence :
          /\ committed.evidence[i][1] = committed.evidence[j][1]
          /\ committed.evidence[i][3] # committed.evidence[j][3]
    /\ \E i, j \in DOMAIN writeLog :
          /\ writeLog[i].committed /\ writeLog[j].committed
          /\ writeLog[i].entry.item.sha256 # writeLog[j].entry.item.sha256


\* the patterns of pats with a match in text t, in the order of pats, each
\* with its matches
Hits(pats, t) ==
    LET hit == SelectSeq(pats, LAMBDA q : FindAll(q.pattern, t) # <<>>)
    IN [i \in DOMAIN hit |-> [pattern |-> hit[i], matches |-> FindAll(hit[i].pattern, t)]]

\* a step in which scraper p runs the patterns on text t
MatcherRan(p, t) == matchRuns'[p][t] = matchRuns[p][t] + 1

\* such a step hands off the hits and nothing but the hits, or nothing when
\* there is none; the pattern list and the queue are as before, the
\* processed set gained the digest of t only, and without a hit the tables
\* are as before
MatchStep ==
    \A p \in Pollers : \A t \in Texts :
        MatcherRan(p, t) =>
            /\ IF Hits(patterns, t) # <<>>
               THEN /\ Len(handoffs'[p]) = Len(handoffs[p]) + 1
                    /\ handoffs'[p][Len(handoffs'[p])].matches = Hits(patterns, t)
               ELSE /\ handoffs' = handoffs
                    /\ UNCHANGED <<store, committed, writeLog>>
            /\ seen'[p] = seen[p] \cup {Sha256(t)}
            /\ UNCHANGED <<patterns, queue, enqueued>>

\* C12: for every text and every pattern list, the patternMatch list holds
\* an entry for a pattern exactly if the pattern has a match in the text,
\* in the order of the pattern list, and matching changes neither the
\* pattern list, the processed set, the queue nor the tables.
C12_MatcherShape == [][MatchStep]_vars

\* C12 witness: of two patterns the first has no match in a text and the
\* second has, the entry handed off holds the second alone; and for
\* another text handed off it is the other way round
C12_Witness ==
    /\ Len(patterns) = 2
    /\ \E p \in Pollers : \E i \in DOMAIN handoffs[p] :
          /\ Len(handoffs[p][i].matches) = 1
          /\ handoffs[p][i].matches[1].pattern = patterns[2]
          /\ patterns[1] # patterns[2]
    /\ \E p \in Pollers : \E i \in DOMAIN handoffs[p] :
          /\ Len(handoffs[p][i].matches) = 1
          /\ handoffs[p][i].matches[1].pattern = patterns[1]


\* C13: a scraper whose task has ended, by whichever path (stop() seen
\* after the wait, a cancel delivered in the wait, a fetch that raised),
\* has closed its XMLSession.
C13_SessionClosedOnExit ==
    \A p \in Pollers : Ended(pc[p]) => ~sessionOpen[p]


\* q is r or r with entries appended
Extends(q, r) == Len(q) >= Len(r) /\ SubSeq(q, 1, Len(r)) = r

\* the step in which a write raises: the entry was taken from the queue,
\* nothing of it is committed, the task has ended and left the loop
WriteRaisesStep ==
    (Len(writeLog') = Len(writeLog) + 1 /\ ~writeLog'[Len(writeLog')].committed) =>
        /\ cpc' = "failed" /\ cur' = Idle
        /\ queue # <<>> /\ queue' = Tail(queue)
        /\ writeLog'[Len(writeLog')].entry = Head(queue)
        /\ committed' = committed

\* once the task has failed it stays failed, no write is begun and no table
\* changes; the queue keeps what it held and what is put later
FailedConsumerStep ==
    cpc = "failed" =>
        /\ cpc' = "failed"
        /\ UNCHANGED <<writeLog, store, committed>>
        /\ Extends(queue', queue)

\* no entry is written again after its write raised
NoRetry ==
    \A i \in DOMAIN writeLog : ~writeLog[i].committed => (cpc = "failed" /\ i = Len(writeLog))

\* a producer can put on the queue of a failed consumer
ProducersGoOn == (cpc = "failed" /\ cur = Idle /\ Len(enqueued) < MaxPuts) => ENABLED Put

\* C14: a write of the consumer that raises is neither caught nor retried:
\* the consumer task ends with it, the entries queued then and put later
\* stay on the queue and are never written, and putting entries on the
\* queue goes on.
C14_WriteFailureEndsConsumer ==
    /\ [](NoRetry /\ ProducersGoOn)
    /\ [][WriteRaisesStep /\ FailedConsumerStep]_vars

\* C14 witness: the first write raised part of the way, with entries left
\* on the queue
C14_Witness ==
    /\ cpc = "failed" /\ Len(writeLog) = 1 /\ Len(queue) = 2
    /\ store # committed


\* C15: in the shutdown of main() the consumer is told to stop only when
\* every scraper has been signalled and its task has ended, and when the
\* loop is closed the queue is empty and every entry put on it was written
\* and committed.
C15_PollersExitBeforeConsumerStops ==
    /\ (cMustCancel \/ isCancelled) => \A p \in Pollers : Ended(pc[p])
    /\ loop = "closed" => (queue = <<>> /\ AllWritten)


\* C16: written through rssscraper.py's SqlLiteDB, the evidence table holds
\* one row per triple (rss_item_sha256, match, pattern), whatever is
\* written and however often.
C16_DirectWriteEvidenceUnique ==
    NoDuplicateEvidence(store) /\ NoDuplicateEvidence(committed)


\* the value claimed for a scalar field: its text when present and not
\* empty, else null
ClaimedScalar(v) == IF v.k = "dict" /\ v.s # "" THEN Str(v.s) ELSE None

\* the value claimed for category: null without a category, else the text
\* of the single value or the list of the values as a string
ClaimedCategory(v) ==
    IF v.k = "missing" \/ (v.k = "dict" /\ v.s = "") THEN None
    ELSE IF v.k = "dict" THEN Str(v.s)
    ELSE [k |-> "str", s |-> "repr of list", l |-> v.l]

\* a step that hands off an entry has built its RssItem from the item at
\* the head of the document with the claimed values
FieldStep ==
    \A p \in Pollers :
        Len(handoffs'[p]) = Len(handoffs[p]) + 1 =>
            LET it == Head(items[p])
                built == handoffs'[p][Len(handoffs'[p])].item
            IN /\ built.sha256 = Sha256(it.text)
               /\ built.title = ClaimedScalar(it.title)
               /\ built.category = ClaimedCategory(it.category)

\* C17: every field of the RssItem built for a matched item holds the text
\* of the field when the item has it and null when the field is missing or
\* empty; category is null without a category and else the string of the
\* single value or of the list.
C17_FieldsExtracted == [][FieldStep]_vars


\* the configured patterns compiled, each once, in configuration order
ConfiguredOnce == [i \in DOMAIN ConfigPatterns |-> Compile(ConfigPatterns[i])]

\* no pattern has two entries in a patternMatch list
OneEntryPerPattern(matches) ==
    \A i, j \in DOMAIN matches : matches[i].pattern = matches[j].pattern => i = j

\* C18: once main() has constructed the scrapers, every scraper matches
\* against the configured patterns, each once and in configuration order,
\* for any number of urls; the list never changes afterwards, and a
\* patternMatch list handed off has at most one entry per pattern.
C18_PatternListAsConfigured ==
    /\ patterns = ConfiguredOnce
    /\ \A p \in Pollers : \A i \in DOMAIN handoffs[p] :
          OneEntryPerPattern(handoffs[p][i].matches)


\* every evidence row of tb refers to an rss_items row, a matches row and a
\* patterns row of tb
Referenced(tb) ==
    \A i \in DOMAIN tb.evidence :
        /\ \E j \in DOMAIN tb.rss_items : tb.rss_items[j].sha256 = tb.evidence[i][1]
        /\ InTable(tb.matches, tb.evidence[i][2])
        /\ InTable(tb.patterns, tb.evidence[i][3])

\* the committed tables change only to what the connection holds, and an
\* entry is taken from the queue only with nothing left uncommitted
CommitsWhole ==
    /\ committed' # committed => committed' = store'
    /\ Len(queue') < Len(queue) => store = committed

\* C19: in every state of the tables, committed or held by the connection,
\* every evidence row (h, m, p) has its rss_items row of sha256 h, its
\* matches row m and its patterns row p; the rows of an entry are committed
\* together and before the next entry is taken.
C19_ReferentialIntegrity ==
    /\ [](Referenced(store) /\ Referenced(committed))
    /\ [][CommitsWhole]_vars

\* C19 witness: entries are committed, and a later write raised after it
\* had inserted evidence that is not committed
C19_Witness ==
    /\ cpc = "failed"
    /\ committed.evidence # <<>>
    /\ Len(store.evidence) > Len(committed.evidence)

====
